---------------------------- MODULE Spec2Model ----------------------------
(***************************************************************************)
(* A model of ProductRecommenderAI (src/ProductRecommender_AI.py).         *)
(*                                                                         *)
(* One run of generate_response is a sequence of steps, one per call the   *)
(* method makes: validate_data_format, format_validation_report,           *)
(* validate_required_fields, validate_data_types, the validity gate,       *)
(* calculate_metrics and the rendering of the success report.  A step      *)
(* that raises an exception nothing catches ends the run in pc = "raised". *)
(*                                                                         *)
(* Units.  quantity is a whole number of units.  price_usd is a whole      *)
(* number of mills (1/1000 dollar), so a price can be finer than a cent    *)
(* and DataFrame.round(2) is not the identity.  Values after round(2) and  *)
(* values printed with two decimals are whole numbers of cents.            *)
(* Arithmetic is exact; binary floating point error is not modelled.       *)
(***************************************************************************)
EXTENDS Integers, Sequences, FiniteSets, TLC

\* The largest number of rows of an input table.
MaxRows == 2

Range(s) == {s[i] : i \in 1..Len(s)}

-----------------------------------------------------------------------------
(* Cell values of a DataFrame column.                                      *)

Num(n) == [k |-> "num", v |-> n]       \* a number
StrNum(n) == [k |-> "str", v |-> n]    \* a string that reads as a number
Text == [k |-> "text", v |-> 0]        \* a string that reads as no number
NaN == [k |-> "null", v |-> 0]         \* a missing value

\* A missing product_id or product_name.
NullKey == "<NA>"

\* pandas.isna of a cell
IsNa(c) == c.k = "null"

\* A comparison `column <= 0` of a cell raises TypeError on a string
\* (object dtype column); a missing value compares False.
CompareRaises(c) == c.k \in {"str", "text"}

NonPositive(c) == c.k = "num" /\ c.v <= 0

\* pd.to_numeric(column, errors='coerce') of one cell
ToNumeric(c) ==
    CASE c.k = "num" -> c
      [] c.k = "str" -> Num(c.v)
      [] OTHER -> NaN

-----------------------------------------------------------------------------
(* Column names.                                                           *)

required_fields ==
    << "transaction_id", "customer_id", "transaction_date",
       "product_id", "product_name", "quantity", "price_usd" >>

\* The column names an input may carry, in header order: the seven required
\* ones, a mixed-case and a padded spelling, and an extra column whose name
\* ends in the text "transaction_id".
RawNames ==
    << "transaction_id", "customer_id", "transaction_date", "product_id",
       "Product_ID", "product_name", "quantity", " quantity", "price_usd",
       "prev_transaction_id" >>

\* str.lower on the names above
Lower(s) == IF s = "Product_ID" THEN "product_id" ELSE s

\* str.strip on the names above
Strip(s) == IF s = " quantity" THEN "quantity" ELSE s

HasCol(d, name) == name \in Range(d.columns)


-----------------------------------------------------------------------------
(* Rows, tables and input texts.                                           *)

MkRow(i, pid, name, q, p, date) ==
    [ transaction_id |-> i, product_id |-> pid, product_name |-> name,
      quantity |-> q, price_usd |-> p, transaction_date |-> date ]

GoodDate == "2025-03-01"
BadDate == "not-a-date"

\* The table held when no table has been parsed.
NoDf == [columns |-> << >>, rows |-> << >>]

\* An input text, by what the parsers make of it.
\*   kind     "csv": delimited text with a header line; "json": a JSON
\*            document; "text": neither
\*   shape    of a JSON document: the type of its top-level value
\*   has_key  of a JSON document: whether `'transactions' in value` is true
\*            (a key of an object, an element of an array, a substring of a
\*            string)
\*   tval     of an object with the key: "rows" (a list of row objects) or
\*            "scalar" (a number)
\*   ragged   of delimited text: a data line has more fields than the header
MkData(kind, shape, has_key, tval, ragged, header, rows) ==
    [ kind |-> kind, shape |-> shape, has_key |-> has_key, tval |-> tval,
      ragged |-> ragged, header |-> header, rows |-> rows ]

HeaderOf(S) == SelectSeq(RawNames, LAMBDA c : c \in S)

\* Headers without two spellings of one name.
SchemaHeaders ==
    { HeaderOf(S) : S \in { T \in SUBSET Range(RawNames) :
          /\ ~({"product_id", "Product_ID"} \subseteq T)
          /\ ~({"quantity", " quantity"} \subseteq T) } }

QuantityCells == {Num(-1), Num(0), Num(1), Num(2), NaN, Text, StrNum(2)}
PriceCells == {Num(0), Num(10000), NaN, Text}

\* The table whose i-th row is the tuple f[i] of
\* <<product_id, product_name, quantity, price_usd, date>>.
RowsOf(f) ==
    [i \in DOMAIN f |-> MkRow(i, f[i][1], f[i][2], f[i][3], f[i][4], f[i][5])]

\* Rows that vary in the values of quantity and price_usd.
ValueCells ==
    { <<"P1", "A", q, p, GoodDate>> : q \in QuantityCells, p \in PriceCells }

\* Valid rows that vary in product, quantity and price.
MetricCells ==
    { <<pid, name, Num(q), Num(p), GoodDate>> :
        pid \in {"P1", "P2", NullKey}, name \in {"A", "B"},
        q \in {1, 2}, p \in {15, 10000, 20000} }

\* Two fixed tables for the inputs that vary in their header.
SchemaRows ==
    { << MkRow(1, "P1", "A", Num(1), Num(10000), d),
         MkRow(2, "P2", "B", Num(2), Num(20000), GoodDate) >> :
      d \in {GoodDate, BadDate} }

\* Delimited or JSON rows under every header.
SchemaInputs ==
    { MkData(kind, "object", TRUE, "rows", FALSE, h, r) :
        kind \in {"csv", "json"}, h \in SchemaHeaders, r \in SchemaRows }

\* JSON rows whose quantity and price_usd values vary: 1..MaxRows rows.
IsValueInput(d) ==
    \E n \in 1..MaxRows : \E f \in [1..n -> ValueCells] :
        d = MkData("json", "object", TRUE, "rows", FALSE, required_fields, RowsOf(f))

\* Delimited rows whose products vary: 1..MaxRows rows.
IsMetricInput(d) ==
    \E n \in 1..MaxRows : \E f \in [1..n -> MetricCells] :
        d = MkData("csv", "object", TRUE, "rows", FALSE, required_fields, RowsOf(f))

\* Delimited text with a line of too many fields.
RaggedInputs ==
    { MkData("csv", "object", TRUE, "rows", TRUE, required_fields, r) :
        r \in SchemaRows }

\* JSON documents of every shape.
JsonShapeInputs ==
    { MkData("json", shape, has_key, tval, FALSE, required_fields, r) :
        shape \in {"object", "array", "string"},
        has_key \in BOOLEAN, tval \in {"rows", "scalar"}, r \in SchemaRows }

JsonScalarInputs ==
    { MkData("json", shape, FALSE, "scalar", FALSE, required_fields, r) :
        shape \in {"number", "null", "bool"}, r \in SchemaRows }

\* Text that is neither.
TextInputs ==
    { MkData("text", "object", FALSE, "rows", FALSE, required_fields, r) :
        r \in SchemaRows }

-----------------------------------------------------------------------------
(* validate_data_format                                                    *)

MsgInvalidJson == "ERROR: Invalid JSON structure. Must contain 'transactions' key."
MsgInvalidFormat == "ERROR: Invalid data format. Please provide your data in CSV or JSON format."
MsgProcessingFailed == "ERROR: Data processing failed."

\* The text contains 'transaction_id,' or 'transaction_id\n': a header
\* column whose name ends in transaction_id, in lower case.
ContainsCsvMarker(d) ==
    /\ d.kind = "csv"
    /\ \E c \in Range(d.header) : c \in {"transaction_id", "prev_transaction_id"}

FormatResult(ok, message, table) == [ok |-> ok, message |-> message, df |-> table]

\* `'transactions' in json_data` raises TypeError on a number, null or bool.
MembershipRaises(d) == d.shape \in {"number", "null", "bool"}

\* json_data['transactions'] raises TypeError on an array or a string;
\* pd.DataFrame(scalar) raises ValueError.
FrameRaises(d) == d.shape # "object" \/ d.tval = "scalar"

validate_data_format(d) ==
    IF ContainsCsvMarker(d)
    THEN IF d.ragged
         THEN FormatResult(FALSE, MsgProcessingFailed, NoDf)
         ELSE FormatResult(TRUE, "Success",
                  [ columns |-> [i \in 1..Len(d.header) |-> Lower(Strip(d.header[i]))],
                    rows |-> d.rows ])
    ELSE IF d.kind # "json"
    THEN FormatResult(FALSE, MsgInvalidFormat, NoDf)
    ELSE IF MembershipRaises(d)
    THEN FormatResult(FALSE, MsgProcessingFailed, NoDf)
    ELSE IF ~d.has_key
    THEN FormatResult(FALSE, MsgInvalidJson, NoDf)
    ELSE IF FrameRaises(d)
    THEN FormatResult(FALSE, MsgProcessingFailed, NoDf)
    ELSE FormatResult(TRUE, "Success",
             [ columns |-> [i \in 1..Len(d.header) |-> Lower(d.header[i])],
               rows |-> d.rows ])

-----------------------------------------------------------------------------
(* Lines of report text.  A line is a tag, the fixed text of the line, and *)
(* the values printed in it.                                               *)

Line(tag, args) == [tag |-> tag, args |-> args]
Fixed(tag) == Line(tag, << >>)

Separator == Fixed("--------------------------------------------------")

-----------------------------------------------------------------------------
(* format_validation_report                                                *)

\* set(col.lower().strip() for col in df.columns)
NormalisedColumns(d) == { Strip(Lower(c)) : c \in Range(d.columns) }

Column(d, name) == [i \in 1..Len(d.rows) |-> d.rows[i][name]]

\* The number of rows of df[col.isna() | (col <= 0)]
InvalidCount(col) ==
    Cardinality({ i \in 1..Len(col) : IsNa(col[i]) \/ NonPositive(col[i]) })

\* df[name] raises KeyError when the column is absent, and `<= 0` raises
\* TypeError when the column holds a string.  "" when neither happens.
PositivityCheckRaises(d, name) ==
    IF ~HasCol(d, name) THEN "KeyError"
    ELSE IF \E i \in 1..Len(d.rows) : CompareRaises(d.rows[i][name]) THEN "TypeError"
    ELSE ""

\* The exception format_validation_report ends with, "" when it returns.
ReportRaises(d) ==
    IF PositivityCheckRaises(d, "quantity") # ""
    THEN PositivityCheckRaises(d, "quantity")
    ELSE PositivityCheckRaises(d, "price_usd")

\* pd.to_datetime(df['transaction_date']) inside try / bare except
DateStatus(d) ==
    IF /\ HasCol(d, "transaction_date")
       /\ \A i \in 1..Len(d.rows) : d.rows[i].transaction_date # BadDate
    THEN "Valid" ELSE "Invalid date format found"

FieldStatusLines(d) ==
    [ i \in 1..Len(required_fields) |->
        Line("field", << required_fields[i],
                         IF Lower(required_fields[i]) \in NormalisedColumns(d)
                         THEN "Present" ELSE "Missing" >>) ]

\* The lines format_validation_report returns, when it returns.
format_validation_report(d) ==
    << Fixed("Data Validation Report:"), Separator,
       Fixed("1. Data Structure Check:"),
       Line("Number of records", << Len(d.rows) >>),
       Line("Number of columns", << Len(d.columns) >>),
       Fixed("2. Required Fields Check:") >>
    \o FieldStatusLines(d)
    \o << Fixed("3. Data Type Validation:"),
          Line("Quantity (positive integers)", << InvalidCount(Column(d, "quantity")) >>),
          Line("Price (positive numbers)", << InvalidCount(Column(d, "price_usd")) >>),
          Line("Date format", << DateStatus(d) >>),
          Separator >>

-----------------------------------------------------------------------------
(* validate_required_fields                                                *)

MsgMissingFields == "ERROR: Missing required fields"

MissingFields(d) ==
    SelectSeq(required_fields, LAMBDA f : Lower(f) \notin NormalisedColumns(d))

validate_required_fields(d) ==
    IF MissingFields(d) # << >>
    THEN [ok |-> FALSE, message |-> Line(MsgMissingFields, MissingFields(d))]
    ELSE [ok |-> TRUE, message |-> Fixed("Success")]

-----------------------------------------------------------------------------
(* validate_data_types                                                     *)

MsgInvalidQuantity == "ERROR: Invalid value for field(s): quantity. Must be positive integer."
MsgInvalidPrice == "ERROR: Invalid value for field(s): price_usd. Must be positive number."
MsgTypeFailed == "ERROR: Data type validation failed."

\* df[name] = pd.to_numeric(df[name], errors='coerce'), in place
Coerce(d, name) ==
    [d EXCEPT !.rows = [i \in 1..Len(d.rows) |->
                           [d.rows[i] EXCEPT ![name] = ToNumeric(@)]]]

HasInvalid(d, name) ==
    \E i \in 1..Len(d.rows) : IsNa(d.rows[i][name]) \/ NonPositive(d.rows[i][name])

TypesResult(ok, message, table) == [ok |-> ok, message |-> message, df |-> table]

\* A validation that looks at price_usd before quantity.
ValidateDataTypesPriceFirst(d) ==
    IF ~HasCol(d, "quantity")
    THEN TypesResult(FALSE, MsgTypeFailed, d)
    ELSE IF ~HasCol(d, "price_usd")
    THEN TypesResult(FALSE, MsgTypeFailed, Coerce(d, "quantity"))
    ELSE LET c == Coerce(Coerce(d, "quantity"), "price_usd")
         IN  IF HasInvalid(c, "price_usd")
             THEN TypesResult(FALSE, MsgInvalidPrice, c)
             ELSE IF HasInvalid(c, "quantity")
             THEN TypesResult(FALSE, MsgInvalidQuantity, c)
             ELSE TypesResult(TRUE, "Success", c)

\* The result of validate_data_types and the table it leaves behind: the
\* coercions made before an exception stay made.
validate_data_types(d) ==
    IF ~HasCol(d, "quantity")
    THEN TypesResult(FALSE, MsgTypeFailed, d)
    ELSE IF ~HasCol(d, "price_usd")
    THEN TypesResult(FALSE, MsgTypeFailed, Coerce(d, "quantity"))
    ELSE LET c == Coerce(Coerce(d, "quantity"), "price_usd")
         IN  IF HasInvalid(c, "quantity")
             THEN TypesResult(FALSE, MsgInvalidQuantity, c)
             ELSE IF HasInvalid(c, "price_usd")
             THEN TypesResult(FALSE, MsgInvalidPrice, c)
             ELSE TypesResult(TRUE, "Success", c)

-----------------------------------------------------------------------------
(* calculate_metrics                                                       *)

\* The order of Python strings on the product ids and names of the inputs.
StrOrd(x) ==
    CASE x = "A" -> 1 [] x = "B" -> 2 [] x = "P1" -> 1 [] x = "P2" -> 2
      [] OTHER -> 0

KeyLess(a, b) ==
    \/ StrOrd(a[1]) < StrOrd(b[1])
    \/ StrOrd(a[1]) = StrOrd(b[1]) /\ StrOrd(a[2]) < StrOrd(b[2])

\* groupby(['product_id', 'product_name']) leaves out the rows with a
\* missing key (dropna=True)
GroupKeys(d) ==
    { << d.rows[i].product_id, d.rows[i].product_name >> :
        i \in { j \in 1..Len(d.rows) :
                  /\ d.rows[j].product_id # NullKey
                  /\ d.rows[j].product_name # NullKey } }

\* ... and yields the groups in the order of their keys (sort=True)
RECURSIVE SortedKeys(_)
SortedKeys(S) ==
    IF S = {} THEN << >>
    ELSE LET m == CHOOSE k \in S : \A o \in S \ {k} : KeyLess(k, o)
         IN  << m >> \o SortedKeys(S \ {m})

\* The rows of one group, in row order.
GroupRows(d, key) ==
    SelectSeq(d.rows, LAMBDA r : r.product_id = key[1] /\ r.product_name = key[2])

RECURSIVE SumQuantity(_)
SumQuantity(rows) ==
    IF rows = << >> THEN 0 ELSE Head(rows).quantity.v + SumQuantity(Tail(rows))

\* A spend computed as the total quantity times one price of the group.
SumSpendOnePrice(rows) ==
    IF rows = << >> THEN 0 ELSE SumQuantity(rows) * Head(rows).price_usd.v

\* 'price_usd': lambda x: (df.loc[x.index, 'quantity'] * x).sum(), in mills
RECURSIVE SumSpend(_)
SumSpend(rows) ==
    IF rows = << >> THEN 0
    ELSE Head(rows).quantity.v * Head(rows).price_usd.v + SumSpend(Tail(rows))

\* total_quantity * 0.5 + total_spend * 0.5, in half mills
ImportanceScore(total_quantity, total_spend) == 1000 * total_quantity + total_spend

\* The frame after reset_index and the importance_score column: one row per
\* group, labelled 0, 1, ... in key order, not yet rounded.
GroupedFrame(d) ==
    LET keys == SortedKeys(GroupKeys(d))
    IN  [ i \in 1..Len(keys) |->
            LET rows == GroupRows(d, keys[i])
            IN  [ index |-> i - 1,
                  product_id |-> keys[i][1],
                  product_name |-> keys[i][2],
                  total_quantity |-> SumQuantity(rows),
                  total_spend |-> SumSpend(rows),
                  importance_score |->
                      ImportanceScore(SumQuantity(rows), SumSpend(rows)) ] ]

Bijections(n) == { f \in [1..n -> 1..n] : \A i, j \in 1..n : f[i] = f[j] => i = j }

\* A sort in ascending order.
SortValuesAscending(frame) ==
    { [i \in 1..Len(frame) |-> frame[f[i]]] :
        f \in { g \in Bijections(Len(frame)) :
                  \A i, j \in 1..Len(frame) :
                      i < j => frame[g[i]].importance_score <= frame[g[j]].importance_score } }

\* sort_values('importance_score', ascending=False): the rows keep their
\* labels.  The default sort kind is not stable, so rows of equal score come
\* out in any order.
SortValues(frame) ==
    { [i \in 1..Len(frame) |-> frame[f[i]]] :
        f \in { g \in Bijections(Len(frame)) :
                  \A i, j \in 1..Len(frame) :
                      i < j => frame[g[i]].importance_score >= frame[g[j]].importance_score } }

\* Rounding of x >= 0 to a whole number of units, a half going to the even
\* neighbour (numpy.round, float formatting).
RoundHalfEven(x, unit) ==
    LET q == x \div unit
        r == x % unit
    IN  IF 2 * r < unit THEN q
        ELSE IF 2 * r > unit THEN q + 1
        ELSE IF q % 2 = 0 THEN q ELSE q + 1

\* product_metrics.round(2): total_spend and importance_score become whole
\* cents; a whole number of units stays as it is.
Round2(frame) ==
    [ i \in 1..Len(frame) |->
        [ frame[i] EXCEPT !.total_spend = RoundHalfEven(@, 10),
                          !.importance_score = RoundHalfEven(@, 20) ] ]

\* The frames calculate_metrics can return.
calculate_metrics(d) == { Round2(sorted) : sorted \in SortValues(GroupedFrame(d)) }

-----------------------------------------------------------------------------
(* format_transaction_details and the success report                       *)

TransactionLine(row) ==
    Line("Transaction",
         << row.transaction_id, row.quantity.v,
            RoundHalfEven(row.price_usd.v, 10),
            RoundHalfEven(row.quantity.v * row.price_usd.v, 10) >>)

\* product_transactions = df[df['product_id'] == product_id]
format_transaction_details(d, product_id) ==
    LET rows == SelectSeq(d.rows, LAMBDA r : r.product_id = product_id)
    IN  [ i \in 1..Len(rows) |-> TransactionLine(rows[i]) ]

\* rank = idx + 1, idx the label of the row
RankOf(row) == row.index + 1

ProductBlock(d, row) ==
    << Line("Rank", << RankOf(row), row.product_name >>),
       Fixed("Detailed Calculations:"),
       Fixed("Individual Transactions:") >>
    \o format_transaction_details(d, row.product_id)
    \o << Fixed("Total Quantity Calculation:"),
          Line("Total Quantity =", << row.total_quantity >>),
          Fixed("Total Spend Calculation:"),
          Line("Total Spend =", << row.total_spend >>),
          Fixed("Importance Score Calculation:"),
          Line("Importance Score =",
               << row.total_quantity, row.total_spend,
                  50 * row.total_quantity, RoundHalfEven(row.total_spend, 2),
                  row.importance_score >>),
          Fixed("Product Summary:"),
          Line("- Total Quantity", << row.total_quantity >>),
          Line("- Total Spend", << row.total_spend >>),
          Line("- Importance Score", << row.importance_score >>),
          Separator >>

RECURSIVE ProductBlocks(_, _)
ProductBlocks(d, metrics) ==
    IF metrics = << >> THEN << >>
    ELSE ProductBlock(d, Head(metrics)) \o ProductBlocks(d, Tail(metrics))

TemplateOffer == Fixed("Would you like a template for the data input?")

SuccessReport(report, d, metrics) ==
    report
    \o << Fixed("Data validation successful! Proceeding with analysis..."),
          Fixed("Formulas Used:"),
          Fixed("1. Total Quantity Formula:"),
          Fixed("2. Total Spend Formula:"),
          Fixed("3. Importance Score Formula:"),
          Fixed("Summary:"),
          Line("Total number of products analyzed", << Len(metrics) >>),
          Fixed("Ranked List and Calculations:") >>
    \o ProductBlocks(d, metrics)
    \o (IF Len(metrics) > 10
        THEN << Fixed("Note: All products are shown with full calculations for transparency.") >>
        ELSE << >>)
    \o << Fixed("Would you like detailed calculations for any specific product? Please rate this analysis from 1 to 5 stars.") >>

FailureReport(report) ==
    report
    \o << Fixed("Data validation failed. Please correct the errors above."),
          TemplateOffer >>

FormatErrorReport(message) == << Fixed(message), Fixed(""), TemplateOffer >>

-----------------------------------------------------------------------------
(* One run of generate_response.                                           *)

VARIABLES
    data,               \* the input text
    pc,                 \* the next step of the run
    df,                 \* the parsed table
    validation_report,  \* the lines of the structural report
    fields_result,      \* what validate_required_fields returned
    types_result,       \* what validate_data_types returned
    product_metrics,    \* what calculate_metrics returned
    response,           \* the text returned
    raised,             \* the exception the run ended with, "" for none
    calls               \* the methods called so far, in order

vars == << data, pc, df, validation_report, fields_result, types_result,
           product_metrics, response, raised, calls >>

NotRun == [ok |-> FALSE, message |-> Fixed("not run")]

Blank ==
    /\ df = NoDf
    /\ validation_report = << >>
    /\ fields_result = NotRun
    /\ types_result = NotRun
    /\ product_metrics = << >>
    /\ response = << >>
    /\ raised = ""
    /\ calls = << >>

Init ==
    /\ \/ data \in SchemaInputs
       \/ IsValueInput(data)
       \/ IsMetricInput(data)
       \/ data \in RaggedInputs
       \/ data \in JsonShapeInputs
       \/ data \in JsonScalarInputs
       \/ data \in TextInputs
    /\ pc = "start"
    /\ Blank

ValidateDataFormat ==
    /\ pc = "start"
    /\ LET r == validate_data_format(data)
       IN  /\ df' = r.df
           /\ IF r.ok
              THEN pc' = "report" /\ response' = response
              ELSE pc' = "done" /\ response' = FormatErrorReport(r.message)
    /\ calls' = Append(calls, "validate_data_format")
    /\ UNCHANGED << data, validation_report, fields_result, types_result,
                    product_metrics, raised >>

FormatValidationReport ==
    /\ pc = "report"
    /\ IF ReportRaises(df) # ""
       THEN /\ raised' = ReportRaises(df)
            /\ pc' = "raised"
            /\ UNCHANGED validation_report
       ELSE /\ validation_report' = format_validation_report(df)
            /\ pc' = "fields"
            /\ UNCHANGED raised
    /\ calls' = Append(calls, "format_validation_report")
    /\ UNCHANGED << data, df, fields_result, types_result, product_metrics,
                    response >>

ValidateRequiredFields ==
    /\ pc = "fields"
    /\ fields_result' = validate_required_fields(df)
    /\ pc' = "types"
    /\ calls' = Append(calls, "validate_required_fields")
    /\ UNCHANGED << data, df, validation_report, types_result,
                    product_metrics, response, raised >>

ValidateDataTypes ==
    /\ pc = "types"
    /\ LET r == validate_data_types(df)
       IN  /\ types_result' = [ok |-> r.ok, message |-> Fixed(r.message)]
           /\ df' = r.df
    /\ pc' = "gate"
    /\ calls' = Append(calls, "validate_data_types")
    /\ UNCHANGED << data, validation_report, fields_result, product_metrics,
                    response, raised >>

\* if not is_valid_fields or not is_valid_types: return the failure report
ReturnFailure ==
    /\ pc = "gate"
    /\ ~fields_result.ok \/ ~types_result.ok
    /\ response' = FailureReport(validation_report)
    /\ pc' = "done"
    /\ UNCHANGED << data, df, validation_report, fields_result, types_result,
                    product_metrics, raised, calls >>

CalculateMetrics ==
    /\ pc = "gate"
    /\ fields_result.ok /\ types_result.ok
    /\ \E metrics \in calculate_metrics(df) : product_metrics' = metrics
    /\ pc' = "render"
    /\ calls' = Append(calls, "calculate_metrics")
    /\ UNCHANGED << data, df, validation_report, fields_result, types_result,
                    response, raised >>

RenderReport ==
    /\ pc = "render"
    /\ response' = SuccessReport(validation_report, df, product_metrics)
    /\ pc' = "done"
    /\ UNCHANGED << data, df, validation_report, fields_result, types_result,
                    product_metrics, raised, calls >>

Next ==
    \/ ValidateDataFormat
    \/ FormatValidationReport
    \/ ValidateRequiredFields
    \/ ValidateDataTypes
    \/ ReturnFailure
    \/ CalculateMetrics
    \/ RenderReport

Spec == Init /\ [][Next]_vars

-----------------------------------------------------------------------------
(* A direct call of validate_data_types on a parsed table.                 *)

InitTypes ==
    /\ \/ IsValueInput(data)
       \/ data \in { d \in SchemaInputs : d.kind = "json" }
    /\ pc = "call"
    /\ df = validate_data_format(data).df
    /\ validation_report = << >>
    /\ fields_result = NotRun
    /\ types_result = NotRun
    /\ product_metrics = << >>
    /\ response = << >>
    /\ raised = ""
    /\ calls = << >>

CallValidateDataTypes ==
    /\ pc = "call"
    /\ LET r == validate_data_types(df)
       IN  /\ types_result' = [ok |-> r.ok, message |-> Fixed(r.message)]
           /\ df' = r.df
    /\ pc' = "returned"
    /\ calls' = Append(calls, "validate_data_types")
    /\ UNCHANGED << data, validation_report, fields_result, product_metrics,
                    response, raised >>

NextTypes == CallValidateDataTypes

SpecTypes == InitTypes /\ [][NextTypes]_vars

-----------------------------------------------------------------------------
(* Properties.                                                             *)

Called(name) == name \in Range(calls)

\* The table as validate_data_format parsed it, before any coercion.
ParsedDf == validate_data_format(data).df

FormatOk == validate_data_format(data).ok

RunEnded == pc \in {"done", "raised"}

MetricsComputed == Called("calculate_metrics")

SuccessReturned == pc = "done" /\ MetricsComputed

\* C1: generate_response never ends with an uncaught exception: every run
\* ends in returned text.
C1_NoUncaughtException == pc # "raised" /\ raised = ""

\* C2: calculate_metrics runs only after format detection succeeded and both
\* validators returned ok; once format detection succeeds both validators
\* are always run; and when either returned not-ok the run ends with the
\* failure report and no metrics.
C2_ValidatorsGateMetrics ==
    /\ MetricsComputed =>
          /\ FormatOk
          /\ Called("validate_required_fields") /\ fields_result.ok
          /\ Called("validate_data_types") /\ types_result.ok
    /\ RunEnded /\ FormatOk =>
          /\ Called("validate_required_fields")
          /\ Called("validate_data_types")
    /\ pc = "done" /\ FormatOk /\ (~fields_result.ok \/ ~types_result.ok) =>
          /\ ~MetricsComputed
          /\ response = FailureReport(validation_report)

\* The position of the first row of a group in the table.
FirstEncounter(d, row) ==
    CHOOSE i \in 1..Len(d.rows) :
        /\ d.rows[i].product_id = row.product_id
        /\ d.rows[i].product_name = row.product_name
        /\ \A j \in 1..(i - 1) :
              ~(/\ d.rows[j].product_id = row.product_id
                /\ d.rows[j].product_name = row.product_name)

NonIncreasing(metrics) ==
    \A i, j \in 1..Len(metrics) :
        i < j => metrics[i].importance_score >= metrics[j].importance_score

\* The sort left the rows of equal score in the order the frame had them in.
TiesKeptInFrameOrder(metrics) ==
    \A i, j \in 1..Len(metrics) :
        i < j /\ metrics[i].importance_score = metrics[j].importance_score
        => metrics[i].index < metrics[j].index

RankLines == SelectSeq(response, LAMBDA l : l.tag = "Rank")

NoTies(metrics) ==
    \A i, j \in 1..Len(metrics) :
        i # j => metrics[i].importance_score # metrics[j].importance_score

\* C4: the k-th product block of the success report carries rank k, so the
\* product of the highest importance_score is printed as Rank 1.  Stated of
\* the reports whose products all differ in score, whose order the scores
\* alone decide.
C4_RankIsPosition ==
    SuccessReturned /\ NoTies(product_metrics) =>
        /\ Len(RankLines) = Len(product_metrics)
        /\ \A k \in 1..Len(RankLines) : RankLines[k].args[1] = k

\* The rows of the table that belong to the group of a metrics row.
GroupIndices(d, row) ==
    { i \in 1..Len(d.rows) :
        /\ d.rows[i].product_id = row.product_id
        /\ d.rows[i].product_name = row.product_name }

RECURSIVE SpendOver(_, _)
SpendOver(d, S) ==
    IF S = {} THEN 0
    ELSE LET i == CHOOSE x \in S : TRUE
         IN  d.rows[i].quantity.v * d.rows[i].price_usd.v + SpendOver(d, S \ {i})

RECURSIVE QuantityOver(_, _)
QuantityOver(d, S) ==
    IF S = {} THEN 0
    ELSE LET i == CHOOSE x \in S : TRUE
         IN  d.rows[i].quantity.v + QuantityOver(d, S \ {i})

\* C5 as stated: total_spend of every group equals the sum of
\* quantity * price over the rows of the group (total_spend is in cents,
\* the sum in mills).
C5_SpendIsExactSum ==
    MetricsComputed =>
        \A k \in 1..Len(product_metrics) :
            10 * product_metrics[k].total_spend
                = SpendOver(df, GroupIndices(df, product_metrics[k]))

\* C5 amended: total_spend of every group equals the sum of
\* quantity * price over exactly the rows of the group, rounded to two
\* decimal places.
C5_SpendIsRoundedSum ==
    MetricsComputed =>
        \A k \in 1..Len(product_metrics) :
            product_metrics[k].total_spend
                = RoundHalfEven(SpendOver(df, GroupIndices(df, product_metrics[k])), 10)

\* A group of two rows of different prices.
C5_Witness ==
    /\ MetricsComputed
    /\ \E k \in 1..Len(product_metrics) :
          \E i, j \in GroupIndices(df, product_metrics[k]) :
              df.rows[i].price_usd.v # df.rows[j].price_usd.v

HasPrefix(s, prefix) ==
    /\ Len(s) >= Len(prefix)
    /\ \A i \in 1..Len(prefix) : s[i].tag = prefix[i].tag /\ s[i].args = prefix[i].args

\* C6: when a parsed table lacks required columns, the text generate_response
\* returns is the structural report plus the list of every missing field in
\* declaration order, as validate_required_fields produces it.  Stated of
\* the runs that return text.
C6_MissingFieldsListed ==
    pc = "done" /\ FormatOk /\ MissingFields(ParsedDf) # << >> =>
        /\ HasPrefix(response, format_validation_report(ParsedDf))
        /\ \E i \in 1..Len(response) :
              /\ response[i].tag = MsgMissingFields
              /\ response[i].args = MissingFields(ParsedDf)

\* C7: an input not detected as CSV that parses as JSON and has no top-level
\* 'transactions' key yields text starting with the invalid-JSON-structure
\* message; the invalid-data-format message is returned only for text that
\* does not parse as JSON.
C7_InvalidJsonStructure ==
    pc = "done" /\ ~ContainsCsvMarker(data) =>
        /\ data.kind = "json" /\ ~(data.shape = "object" /\ data.has_key)
              => response[1].tag = MsgInvalidJson
        /\ response[1].tag = MsgInvalidFormat => data.kind # "json"

\* A raw cell that is a number, or reads as one, and is positive.
PositiveNumber(c) == c.k \in {"num", "str"} /\ c.v > 0

QuantityBad == \E i \in 1..Len(data.rows) : ~PositiveNumber(data.rows[i].quantity)
PriceBad == \E i \in 1..Len(data.rows) : ~PositiveNumber(data.rows[i].price_usd)

RECURSIVE SumTotalQuantity(_)
SumTotalQuantity(metrics) ==
    IF metrics = << >> THEN 0
    ELSE Head(metrics).total_quantity + SumTotalQuantity(Tail(metrics))

\* C9: the groups partition the rows: every row is counted in exactly one
\* group, so the total_quantity of all groups add up to the quantity of all
\* rows.  Stated of the tables that yield at least one group.
C9_GroupsPartitionRows ==
    MetricsComputed /\ product_metrics # << >> =>
        /\ \A i \in 1..Len(df.rows) :
              Cardinality({ k \in 1..Len(product_metrics) :
                              i \in GroupIndices(df, product_metrics[k]) }) = 1
        /\ SumTotalQuantity(product_metrics) = QuantityOver(df, 1..Len(df.rows))

RankPositions ==
    SelectSeq([i \in 1..Len(response) |-> i], LAMBDA i : response[i].tag = "Rank")

\* The lines of the k-th product block of the success report.
BlockLines(k) ==
    SubSeq(response, RankPositions[k],
           IF k < Len(RankPositions) THEN RankPositions[k + 1] - 1 ELSE Len(response))

TransactionIds(lines) ==
    LET t == SelectSeq(lines, LAMBDA l : l.tag = "Transaction")
    IN  [i \in 1..Len(t) |-> t[i].args[1]]

\* C10: the transactions listed under each ranked product are exactly the
\* rows of that product's (product_id, product_name) group, in row order.
C10_TransactionsOfGroup ==
    SuccessReturned =>
        \A k \in 1..Len(product_metrics) :
            LET rows == GroupRows(df, << product_metrics[k].product_id,
                                         product_metrics[k].product_name >>)
            IN  TransactionIds(BlockLines(k)) = [i \in 1..Len(rows) |-> rows[i].transaction_id]

=============================================================================
